---------------------------- MODULE Spec2Model ----------------------------
(***************************************************************************)
(* Wigest API (py-api): the repository layer of database.py and the HTTP   *)
(* handlers of main.py over the relational store they use.                 *)
(*                                                                         *)
(* The store is modelled as database.py sees it: five tables, generated    *)
(* ids, and the two uniqueness constraints main.py handles explicitly      *)
(* (UniqueViolation on clients.email and offres.nom).  No statement of the *)
(* source relies on a store-side foreign key, and the handlers test the    *)
(* referenced rows themselves, so referential integrity is whatever the    *)
(* code keeps.                                                             *)
(***************************************************************************)
EXTENDS Integers, Sequences, FiniteSets, TLC

VARIABLES
    db,      \* the committed content of the store
    last,    \* the most recent request and the response it produced
    blocked, \* the guarded deletes refused so far because dependents existed
    procs    \* the requests in flight (concurrent specification only)

vars == <<db, last, blocked, procs>>

---------------------------------------------------------------------------
(* Python values *)

\* Optional[T]: None, or a present value.
None == <<>>
Some(v) == <<v>>
Val(x) == x[1]

\* `if x:` on Optional[int] and on Optional[str]: None, 0 and "" are falsy.
TruthyInt(x) == x # None /\ Val(x) # 0
TruthyStr(x) == x # None /\ Val(x) # <<>>

\* Exceptions carried out of a `try` body.
NoExc == [type |-> "", status_code |-> 0]
HTTPException(code) == [type |-> "HTTPException", status_code |-> code]
UniqueViolation == [type |-> "UniqueViolation", status_code |-> 0]
TypeError == [type |-> "TypeError", status_code |-> 0]

---------------------------------------------------------------------------
(* Text: a str is a sequence of one-character strings *)

DigitChars == <<"0", "1", "2", "3", "4", "5", "6", "7", "8", "9">>

RECURSIVE Zfill(_, _)
Zfill(n, width) ==
    IF width = 0 THEN <<>>
    ELSE Zfill(n \div 10, width - 1) \o <<DigitChars[(n % 10) + 1]>>

DigitValue(c) == CHOOSE n \in 0..9 : DigitChars[n + 1] = c

RECURSIVE ParseInt(_)
ParseInt(s) ==
    IF s = <<>> THEN 0
    ELSE 10 * ParseInt(SubSeq(s, 1, Len(s) - 1)) + DigitValue(s[Len(s)])

\* datetime.date is <<year, month, day>>; date.isoformat() is "YYYY-MM-DD".
isoformat(d) == Zfill(d[1], 4) \o <<"-">> \o Zfill(d[2], 2) \o <<"-">> \o Zfill(d[3], 2)

\* A date column read as YYYY-DD-MM.
date_in_day_first(s) == <<ParseInt(SubSeq(s, 1, 4)), ParseInt(SubSeq(s, 9, 10)), ParseInt(SubSeq(s, 6, 7))>>

\* The store reading an ISO text into a date column.
date_in(s) == <<ParseInt(SubSeq(s, 1, 4)), ParseInt(SubSeq(s, 6, 7)), ParseInt(SubSeq(s, 9, 10))>>

\* TO_CHAR(d, 'YYYY-MM')
TO_CHAR_YYYY_MM(d) == Zfill(d[1], 4) \o <<"-">> \o Zfill(d[2], 2)

Lower(c) == CASE c = "A" -> "a" [] c = "B" -> "b" [] c = "C" -> "c" [] OTHER -> c

\* value ILIKE pattern, with the wildcards % and _.
RECURSIVE ILIKE(_, _)
ILIKE(s, p) ==
    IF p = <<>> THEN s = <<>>
    ELSE IF Head(p) = "%"
         THEN ILIKE(s, Tail(p)) \/ (s # <<>> /\ ILIKE(Tail(s), p))
         ELSE /\ s # <<>>
              /\ (Head(p) = "_" \/ Lower(Head(s)) = Lower(Head(p)))
              /\ ILIKE(Tail(s), Tail(p))

\* f"%{search}%"
WrapPercent(search) == <<"%">> \o search \o <<"%">>

\* date1 < date2 on <<y, m, d>>
DateLess(a, b) ==
    \/ a[1] < b[1]
    \/ a[1] = b[1] /\ a[2] < b[2]
    \/ a[1] = b[1] /\ a[2] = b[2] /\ a[3] < b[3]

---------------------------------------------------------------------------
(* The store *)

EmptySeq == [clients |-> 0, offres |-> 0, abonnements |-> 0, paiements |-> 0]

EmptyDb ==
    [clients |-> {}, offres |-> {}, abonnements |-> {}, paiements |-> {},
     logs |-> {}, seq |-> EmptySeq]

\* The rows of the four writable tables (the id sequences apart).
Tables(d) == <<d.clients, d.offres, d.abonnements, d.paiements>>

TotalInserted(d) ==
    d.seq.clients + d.seq.offres + d.seq.abonnements + d.seq.paiements

ById(table, id) == {r \in table : r.id = id}

\* A cursor whose `except` clause re-raises without conn.rollback() and whose
\* connection keeps what the body wrote.
get_db_cursor_without_rollback(d0, work, commit) ==
    IF work.raised # NoExc THEN work
    ELSE IF commit
         THEN work
         ELSE [db |-> [d0 EXCEPT !.seq = work.db.seq], ret |-> work.ret, raised |-> NoExc]

\* get_db_cursor: the body ran on a working copy `work` of the committed store
\* `d0`.  An exception rolls the copy back and is re-raised; a normal exit
\* commits when commit=True and otherwise drops the (unwritten) copy when the
\* connection closes.  Sequence values drawn by the body are never given back.
get_db_cursor(d0, work, commit) ==
    IF work.raised # NoExc
    THEN [db |-> [d0 EXCEPT !.seq = work.db.seq], ret |-> work.ret, raised |-> work.raised]
    ELSE IF commit
         THEN work
         ELSE [db |-> [d0 EXCEPT !.seq = work.db.seq], ret |-> work.ret, raised |-> NoExc]

Returned(d, ret) == [db |-> d, ret |-> ret, raised |-> NoExc]
Raised(d, exc) == [db |-> d, ret |-> {}, raised |-> exc]

---------------------------------------------------------------------------
(* database.py: clients *)

db_get_client(d, client_id) ==
    get_db_cursor(d, Returned(d, ById(d.clients, client_id)), FALSE)

db_create_client(d, nom, email) ==
    LET id == d.seq.clients + 1
        row == [id |-> id, nom |-> nom, email |-> email]
        d1 == [d EXCEPT !.seq.clients = id]
    IN get_db_cursor(d,
         IF \E c \in d.clients : c.email = email
         THEN Raised(d1, UniqueViolation)
         ELSE Returned([d1 EXCEPT !.clients = @ \cup {row}], {row}),
         TRUE)

db_update_client(d, client_id, nom, email) ==
    LET hit == ById(d.clients, client_id)
        row == [id |-> client_id, nom |-> nom, email |-> email]
    IN get_db_cursor(d,
         IF hit = {} THEN Returned(d, {})
         ELSE IF \E c \in d.clients \ hit : c.email = email
              THEN Raised(d, UniqueViolation)
              ELSE Returned([d EXCEPT !.clients = (@ \ hit) \cup {row}], {row}),
         TRUE)

db_delete_client(d, client_id) ==
    LET hit == ById(d.clients, client_id)
    IN get_db_cursor(d, Returned([d EXCEPT !.clients = @ \ hit], hit # {}), TRUE)

---------------------------------------------------------------------------
(* database.py: offres *)

db_get_offre(d, offre_id) ==
    get_db_cursor(d, Returned(d, ById(d.offres, offre_id)), FALSE)

db_create_offre(d, nom, debit_mbps, prix) ==
    LET id == d.seq.offres + 1
        row == [id |-> id, nom |-> nom, debit_mbps |-> debit_mbps, prix |-> prix]
        d1 == [d EXCEPT !.seq.offres = id]
    IN get_db_cursor(d,
         IF \E o \in d.offres : o.nom = nom
         THEN Raised(d1, UniqueViolation)
         ELSE Returned([d1 EXCEPT !.offres = @ \cup {row}], {row}),
         TRUE)

db_update_offre(d, offre_id, nom, debit_mbps, prix) ==
    LET hit == ById(d.offres, offre_id)
        row == [id |-> offre_id, nom |-> nom, debit_mbps |-> debit_mbps, prix |-> prix]
    IN get_db_cursor(d,
         IF hit = {} THEN Returned(d, {})
         ELSE IF \E o \in d.offres \ hit : o.nom = nom
              THEN Raised(d, UniqueViolation)
              ELSE Returned([d EXCEPT !.offres = (@ \ hit) \cup {row}], {row}),
         TRUE)

\* A guard that forgets its WHERE clause and counts every abonnement.
count_abonnements_of_any_offre(d, offre_id) ==
    Cardinality(d.abonnements)

\* SELECT COUNT(*) FROM abonnements WHERE offre_id = %s
count_abonnements_of_offre(d, offre_id) ==
    Cardinality({a \in d.abonnements : a.offre_id = offre_id})

\* DELETE FROM offres WHERE id = %s RETURNING id
delete_from_offres(d, offre_id) ==
    Returned([d EXCEPT !.offres = @ \ ById(d.offres, offre_id)],
             ById(d.offres, offre_id) # {})

\* delete_offre without its count guard.
db_delete_offre_unguarded(d, offre_id) ==
    get_db_cursor(d, delete_from_offres(d, offre_id), TRUE)

db_delete_offre(d, offre_id) ==
    get_db_cursor(d,
         IF count_abonnements_of_offre(d, offre_id) > 0
         THEN Returned(d, FALSE)
         ELSE delete_from_offres(d, offre_id),
         TRUE)

---------------------------------------------------------------------------
(* database.py: abonnements *)

\* SELECT c.nom as client_nom, o.nom as offre_nom FROM clients c, offres o
\* WHERE c.id = %s AND o.id = %s
select_names(d, client_id, offre_id) ==
    {[client_nom |-> c.nom, offre_nom |-> o.nom] :
        c \in ById(d.clients, client_id), o \in ById(d.offres, offre_id)}

\* row: a base row with the two denormalized names added.
WithNames(row, names) == row @@ names

\* FROM abonnements a JOIN clients c ON a.client_id = c.id
\*                    JOIN offres o ON a.offre_id = o.id
abonnements_joined(d) ==
    UNION {{WithNames(a, n) : n \in select_names(d, a.client_id, a.offre_id)} :
              a \in d.abonnements}

db_get_abonnement(d, abonnement_id) ==
    get_db_cursor(d, Returned(d, ById(abonnements_joined(d), abonnement_id)), FALSE)

\* INSERT INTO abonnements (...) VALUES (...) RETURNING *
insert_into_abonnements(d, client_id, offre_id, date_debut, date_fin) ==
    LET id == d.seq.abonnements + 1
        row == [id |-> id, client_id |-> client_id, offre_id |-> offre_id,
                date_debut |-> date_in(date_debut),
                date_fin |-> IF date_fin = None THEN None ELSE Some(date_in(Val(date_fin)))]
    IN Returned([d EXCEPT !.seq.abonnements = id, !.abonnements = @ \cup {row}], {row})

\* abonnement["client_nom"] = details["client_nom"]; ... on the fetched details,
\* which is None when the lookup found no row.
enrich(d, rows, details) ==
    IF rows = {} THEN Returned(d, {})
    ELSE IF details = {} THEN Raised(d, TypeError)
    ELSE Returned(d, {WithNames(r, n) : r \in rows, n \in details})

db_create_abonnement(d, client_id, offre_id, date_debut, date_fin) ==
    LET ins == insert_into_abonnements(d, client_id, offre_id, date_debut, date_fin)
    IN get_db_cursor(d,
         enrich(ins.db, ins.ret, select_names(ins.db, client_id, offre_id)),
         TRUE)

\* Lines 269-271: a supplied value wins, an omitted one falls back to `current`.
abonnement_new_values(current, offre_id, date_debut, date_fin) ==
    [offre_id |-> IF offre_id # None THEN Val(offre_id) ELSE current.offre_id,
     date_debut |-> IF date_debut # None THEN date_in(Val(date_debut)) ELSE current.date_debut,
     date_fin |-> IF date_fin # None THEN Some(date_in(Val(date_fin))) ELSE current.date_fin]

\* UPDATE abonnements SET offre_id, date_debut, date_fin WHERE id = %s RETURNING *
update_abonnements(d, abonnement_id, new) ==
    LET hit == ById(d.abonnements, abonnement_id)
        rows == {[r EXCEPT !.offre_id = new.offre_id, !.date_debut = new.date_debut,
                           !.date_fin = new.date_fin] : r \in hit}
    IN Returned([d EXCEPT !.abonnements = (@ \ hit) \cup rows], rows)

\* update_abonnement looking the names up with current["offre_id"] instead of
\* new_offre_id.
db_update_abonnement_names_of_current(d, abonnement_id, offre_id, date_debut, date_fin) ==
    LET first == get_db_cursor(d, Returned(d, ById(d.abonnements, abonnement_id)), FALSE)
    IN IF first.ret = {} THEN first
       ELSE LET current == CHOOSE r \in first.ret : TRUE
                new == abonnement_new_values(current, offre_id, date_debut, date_fin)
                upd == update_abonnements(first.db, abonnement_id, new)
                client_ids == {r.client_id : r \in upd.ret}
            IN get_db_cursor(first.db,
                 enrich(upd.db, upd.ret,
                        UNION {select_names(upd.db, c, current.offre_id) : c \in client_ids}),
                 TRUE)

db_update_abonnement(d, abonnement_id, offre_id, date_debut, date_fin) ==
    LET first == get_db_cursor(d, Returned(d, ById(d.abonnements, abonnement_id)), FALSE)
    IN IF first.ret = {} THEN first
       ELSE LET current == CHOOSE r \in first.ret : TRUE
                new == abonnement_new_values(current, offre_id, date_debut, date_fin)
                upd == update_abonnements(first.db, abonnement_id, new)
                client_ids == {r.client_id : r \in upd.ret}
            IN get_db_cursor(first.db,
                 enrich(upd.db, upd.ret,
                        UNION {select_names(upd.db, c, new.offre_id) : c \in client_ids}),
                 TRUE)

\* SELECT COUNT(*) FROM paiements WHERE abonnement_id = %s
count_paiements_of_abonnement(d, abonnement_id) ==
    Cardinality({p \in d.paiements : p.abonnement_id = abonnement_id})

\* DELETE FROM abonnements WHERE id = %s RETURNING id
delete_from_abonnements(d, abonnement_id) ==
    Returned([d EXCEPT !.abonnements = @ \ ById(d.abonnements, abonnement_id)],
             ById(d.abonnements, abonnement_id) # {})

\* delete_abonnement without its guard: the DELETE alone.
db_delete_abonnement_unguarded(d, abonnement_id) ==
    get_db_cursor(d, delete_from_abonnements(d, abonnement_id), TRUE)

db_delete_abonnement(d, abonnement_id) ==
    get_db_cursor(d,
         IF count_paiements_of_abonnement(d, abonnement_id) > 0
         THEN Returned(d, FALSE)
         ELSE delete_from_abonnements(d, abonnement_id),
         TRUE)

---------------------------------------------------------------------------
(* database.py: paiements *)

\* SELECT c.nom, o.nom FROM abonnements a JOIN clients c .. JOIN offres o ..
\* WHERE a.id = %s
select_names_of_abonnement(d, abonnement_id) ==
    {[client_nom |-> a.client_nom, offre_nom |-> a.offre_nom] :
        a \in ById(abonnements_joined(d), abonnement_id)}

\* FROM paiements p JOIN abonnements a .. JOIN clients c .. JOIN offres o ..
\* (the joined abonnement's client_id and offre_id are kept for the filters)
paiements_joined(d) ==
    UNION {{WithNames(p, [client_nom |-> a.client_nom, offre_nom |-> a.offre_nom,
                          a_client_id |-> a.client_id, a_offre_id |-> a.offre_id]) :
               a \in ById(abonnements_joined(d), p.abonnement_id)} :
              p \in d.paiements}

\* SELECT p.*, c.nom as client_nom, o.nom as offre_nom ...
paiement_detail(j) ==
    [id |-> j.id, abonnement_id |-> j.abonnement_id, montant |-> j.montant,
     date_paiement |-> j.date_paiement, client_nom |-> j.client_nom,
     offre_nom |-> j.offre_nom]

db_get_paiement(d, paiement_id) ==
    get_db_cursor(d,
         Returned(d, {paiement_detail(j) : j \in ById(paiements_joined(d), paiement_id)}),
         FALSE)

\* INSERT INTO paiements (...) VALUES (...) RETURNING *
insert_into_paiements(d, abonnement_id, montant, date_paiement) ==
    LET id == d.seq.paiements + 1
        row == [id |-> id, abonnement_id |-> abonnement_id, montant |-> montant,
                date_paiement |-> date_in(date_paiement)]
    IN Returned([d EXCEPT !.seq.paiements = id, !.paiements = @ \cup {row}], {row})

db_create_paiement(d, abonnement_id, montant, date_paiement) ==
    LET ins == insert_into_paiements(d, abonnement_id, montant, date_paiement)
    IN get_db_cursor(d,
         enrich(ins.db, ins.ret, select_names_of_abonnement(ins.db, abonnement_id)),
         TRUE)

\* New values that take an omitted field for its column default (0, the
\* first day of the year) instead of falling back to `current`.
paiement_new_values_without_current(current, montant, date_paiement) ==
    [montant |-> IF montant # None THEN Val(montant) ELSE 0,
     date_paiement |-> IF date_paiement # None THEN date_in(Val(date_paiement))
                       ELSE <<current.date_paiement[1], 1, 1>>]

\* Lines 408-409.
paiement_new_values(current, montant, date_paiement) ==
    [montant |-> IF montant # None THEN Val(montant) ELSE current.montant,
     date_paiement |-> IF date_paiement # None THEN date_in(Val(date_paiement))
                       ELSE current.date_paiement]

\* UPDATE paiements SET montant, date_paiement WHERE id = %s RETURNING *
update_paiements(d, paiement_id, new) ==
    LET hit == ById(d.paiements, paiement_id)
        rows == {[r EXCEPT !.montant = new.montant,
                           !.date_paiement = new.date_paiement] : r \in hit}
    IN Returned([d EXCEPT !.paiements = (@ \ hit) \cup rows], rows)

db_update_paiement(d, paiement_id, montant, date_paiement) ==
    LET first == get_db_cursor(d, Returned(d, ById(d.paiements, paiement_id)), FALSE)
    IN IF first.ret = {} THEN first
       ELSE LET current == CHOOSE r \in first.ret : TRUE
                new == paiement_new_values(current, montant, date_paiement)
                upd == update_paiements(first.db, paiement_id, new)
                abonnement_ids == {r.abonnement_id : r \in upd.ret}
            IN get_db_cursor(first.db,
                 enrich(upd.db, upd.ret,
                        UNION {select_names_of_abonnement(upd.db, a) : a \in abonnement_ids}),
                 TRUE)

db_delete_paiement(d, paiement_id) ==
    LET hit == ById(d.paiements, paiement_id)
    IN get_db_cursor(d, Returned([d EXCEPT !.paiements = @ \ hit], hit # {}), TRUE)

---------------------------------------------------------------------------
(* main.py: exception handling of the handlers *)

\* `except Exception as e: raise HTTPException(status_code=500, ...)`.  Every
\* exception of the try body is an Exception, fastapi.HTTPException included.
except_Exception(exc) ==
    IF exc = NoExc THEN NoExc ELSE HTTPException(500)

\* The two except clauses in the other order: `except Exception` catches the
\* UniqueViolation first.
except_Exception_UniqueViolation(exc) ==
    IF exc = NoExc THEN NoExc ELSE HTTPException(500)

\* `except psycopg2.errors.UniqueViolation: raise HTTPException(409)` followed
\* by the `except Exception` clause.
except_UniqueViolation_Exception(exc) ==
    IF exc.type = "UniqueViolation" THEN HTTPException(409) ELSE except_Exception(exc)

\* A handler without try/except: the exception leaves it as it is.
no_except(exc) == exc

\* The response status FastAPI sends: the HTTPException's status_code, 500 for
\* any other exception, the route's own status on a normal return.
status_of(exc, ok_status) ==
    IF exc = NoExc THEN ok_status
    ELSE IF exc.type = "HTTPException" THEN exc.status_code
    ELSE 500

\* `if not row: raise HTTPException(code)` after a repository call that
\* returns a row or None.
raise_if_none(r, code) ==
    IF r.raised # NoExc THEN r.raised
    ELSE IF r.ret = {} THEN HTTPException(code)
    ELSE NoExc

\* `if not db.delete_x(id): raise HTTPException(code)`.
raise_if_false(r, code) ==
    IF r.raised # NoExc THEN r.raised
    ELSE IF r.ret = FALSE THEN HTTPException(code)
    ELSE NoExc

\* The request is answered: the store is what the repository calls left, and
\* `last` records the call, what the repository returned, what the try body
\* raised and the status sent.
Reply(op, args, r, raised, status) ==
    /\ db' = r.db
    /\ last' = [op |-> op, args |-> args, ret |-> r.ret, raised |-> raised,
                status |-> status]
    /\ UNCHANGED <<blocked, procs>>

\* The same for a guarded delete, which is also noted in `blocked` when the
\* repository refused it while `dependents` (rows referencing the target) existed.
ReplyGuarded(op, args, r, raised, status, dependents) ==
    /\ db' = r.db
    /\ last' = [op |-> op, args |-> args, ret |-> r.ret, raised |-> raised,
                status |-> status]
    /\ blocked' = IF r.ret = FALSE /\ dependents # {}
                  THEN blocked \cup {<<op, args.id>>} ELSE blocked
    /\ UNCHANGED procs

---------------------------------------------------------------------------
(* main.py: the handlers, each one request answered in one step *)

read_client(client_id) ==
    LET r == db_get_client(db, client_id)
        raised == raise_if_none(r, 404)
    IN Reply("read_client", [id |-> client_id], r, raised,
             status_of(no_except(raised), 200))

create_client(nom, email) ==
    LET r == db_create_client(db, nom, email)
        raised == r.raised
    IN Reply("create_client", [nom |-> nom, email |-> email], r, raised,
             status_of(except_UniqueViolation_Exception(raised), 201))

update_client(client_id, nom, email) ==
    LET r == db_update_client(db, client_id, nom, email)
        raised == raise_if_none(r, 404)
    IN Reply("update_client", [id |-> client_id, nom |-> nom, email |-> email],
             r, raised, status_of(except_UniqueViolation_Exception(raised), 200))

delete_client(client_id) ==
    LET r == db_delete_client(db, client_id)
        raised == raise_if_false(r, 404)
    IN Reply("delete_client", [id |-> client_id], r, raised,
             status_of(except_Exception(raised), 200))

read_offre(offre_id) ==
    LET r == db_get_offre(db, offre_id)
        raised == raise_if_none(r, 404)
    IN Reply("read_offre", [id |-> offre_id], r, raised,
             status_of(no_except(raised), 200))

create_offre(nom, debit_mbps, prix) ==
    LET r == db_create_offre(db, nom, debit_mbps, prix)
        raised == r.raised
    IN Reply("create_offre", [nom |-> nom, debit_mbps |-> debit_mbps, prix |-> prix],
             r, raised, status_of(except_UniqueViolation_Exception(raised), 201))

update_offre(offre_id, nom, debit_mbps, prix) ==
    LET r == db_update_offre(db, offre_id, nom, debit_mbps, prix)
        raised == raise_if_none(r, 404)
    IN Reply("update_offre",
             [id |-> offre_id, nom |-> nom, debit_mbps |-> debit_mbps, prix |-> prix],
             r, raised, status_of(except_UniqueViolation_Exception(raised), 200))

delete_offre(offre_id) ==
    LET r == db_delete_offre(db, offre_id)
        raised == raise_if_false(r, 409)
    IN ReplyGuarded("delete_offre", [id |-> offre_id], r, raised,
                    status_of(except_Exception(raised), 200),
                    {a \in db.abonnements : a.offre_id = offre_id})

read_abonnement(abonnement_id) ==
    LET r == db_get_abonnement(db, abonnement_id)
        raised == raise_if_none(r, 404)
    IN Reply("read_abonnement", [id |-> abonnement_id], r, raised,
             status_of(no_except(raised), 200))

\* `x.isoformat() if x else None` on an Optional[date]
isoformat_opt(x) == IF x # None THEN Some(isoformat(Val(x))) ELSE None

create_abonnement(client_id, offre_id, date_debut, date_fin) ==
    LET client == db_get_client(db, client_id)
        offre == db_get_offre(client.db, offre_id)
        r == IF client.ret = {} THEN Returned(client.db, {})
             ELSE IF offre.ret = {} THEN Returned(offre.db, {})
             ELSE db_create_abonnement(offre.db, client_id, offre_id,
                                       isoformat(date_debut), isoformat_opt(date_fin))
        raised == IF client.ret = {} \/ offre.ret = {} THEN HTTPException(404)
                  ELSE r.raised
    IN Reply("create_abonnement",
             [client_id |-> client_id, offre_id |-> offre_id,
              date_debut |-> date_debut, date_fin |-> date_fin],
             r, raised, status_of(except_Exception(raised), 201))

update_abonnement(abonnement_id, offre_id, date_debut, date_fin) ==
    LET offre == IF offre_id # None THEN db_get_offre(db, Val(offre_id))
                 ELSE Returned(db, {})
        missing == offre_id # None /\ offre.ret = {}
        r == IF missing THEN Returned(offre.db, {})
             ELSE db_update_abonnement(offre.db, abonnement_id, offre_id,
                                       isoformat_opt(date_debut), isoformat_opt(date_fin))
        raised == IF missing THEN HTTPException(404) ELSE raise_if_none(r, 404)
    IN Reply("update_abonnement",
             [id |-> abonnement_id, offre_id |-> offre_id,
              date_debut |-> date_debut, date_fin |-> date_fin],
             r, raised, status_of(except_Exception(raised), 200))

delete_abonnement(abonnement_id) ==
    LET r == db_delete_abonnement(db, abonnement_id)
        raised == raise_if_false(r, 409)
    IN ReplyGuarded("delete_abonnement", [id |-> abonnement_id], r, raised,
                    status_of(except_Exception(raised), 200),
                    {p \in db.paiements : p.abonnement_id = abonnement_id})

read_paiement(paiement_id) ==
    LET r == db_get_paiement(db, paiement_id)
        raised == raise_if_none(r, 404)
    IN Reply("read_paiement", [id |-> paiement_id], r, raised,
             status_of(no_except(raised), 200))

create_paiement(abonnement_id, montant, date_paiement) ==
    LET abonnement == db_get_abonnement(db, abonnement_id)
        r == IF abonnement.ret = {} THEN Returned(abonnement.db, {})
             ELSE db_create_paiement(abonnement.db, abonnement_id, montant,
                                     isoformat(date_paiement))
        raised == IF abonnement.ret = {} THEN HTTPException(404) ELSE r.raised
    IN Reply("create_paiement",
             [abonnement_id |-> abonnement_id, montant |-> montant,
              date_paiement |-> date_paiement],
             r, raised, status_of(except_Exception(raised), 201))

update_paiement(paiement_id, montant, date_paiement) ==
    LET r == db_update_paiement(db, paiement_id, montant, isoformat_opt(date_paiement))
        raised == raise_if_none(r, 404)
    IN Reply("update_paiement",
             [id |-> paiement_id, montant |-> montant, date_paiement |-> date_paiement],
             r, raised, status_of(except_Exception(raised), 200))

delete_paiement(paiement_id) ==
    LET r == db_delete_paiement(db, paiement_id)
        raised == raise_if_false(r, 404)
    IN Reply("delete_paiement", [id |-> paiement_id], r, raised,
             status_of(except_Exception(raised), 200))

---------------------------------------------------------------------------
(* Requests: the bounded inputs the specifications draw from *)

\* MaxInserts caps the rows inserted over all tables; the ids a request may
\* name are those of Ids, and no table draws an id outside it.
MaxInserts == 4

Ids == 1..2

Email1 == <<"a", "@", "b", ".", "c", "c">>
Email2 == <<"b", "@", "b", ".", "c", "c">>
NomA == <<"A", "b">>
NomB == <<"b">>
Date1 == <<2024, 3, 1>>
Date2 == <<2024, 4, 15>>

CanInsert(table_seq) ==
    (table_seq + 1) \in Ids /\ TotalInserted(db) < MaxInserts

NoRequest == [op |-> "", args |-> <<>>, ret |-> {}, raised |-> NoExc, status |-> 0]

Init ==
    /\ db = EmptyDb
    /\ last = NoRequest
    /\ blocked = {}
    /\ procs = <<>>

ClientRequest ==
    \/ \E id \in Ids : read_client(id)
    \/ \E email \in {Email1, Email2} :
          CanInsert(db.seq.clients) /\ create_client(NomA, email)
    \/ \E id \in Ids, email \in {Email1, Email2} : update_client(id, NomA, email)
    \/ \E id \in Ids : delete_client(id)

OffreRequest ==
    \/ \E id \in Ids : read_offre(id)
    \/ \E nom \in {NomA, NomB} :
          CanInsert(db.seq.offres) /\ create_offre(nom, None, None)
    \/ \E id \in Ids, nom \in {NomA, NomB} : update_offre(id, nom, None, None)
    \/ \E id \in Ids : delete_offre(id)

AbonnementRequest ==
    \/ \E id \in Ids : read_abonnement(id)
    \/ \E c \in Ids, o \in Ids :
          CanInsert(db.seq.abonnements) /\ create_abonnement(c, o, Date1, None)
    \/ \E id \in Ids, o \in {None} \cup {Some(i) : i \in Ids} :
          update_abonnement(id, o, None, None)
    \/ \E id \in Ids : delete_abonnement(id)

PaiementRequest ==
    \/ \E id \in Ids : read_paiement(id)
    \/ \E a \in Ids :
          CanInsert(db.seq.paiements) /\ create_paiement(a, 5, Date1)
    \/ \E id \in Ids, m \in {None, Some(7)} : update_paiement(id, m, None)
    \/ \E id \in Ids : delete_paiement(id)

Next == ClientRequest \/ OffreRequest \/ AbonnementRequest \/ PaiementRequest

Spec == Init /\ [][Next]_vars

---------------------------------------------------------------------------
(* Properties of the sequential specification Spec.  In a step of Spec the  *)
(* primed `last` describes the request just answered and the unprimed `db` *)
(* is the store that request found.                                        *)

OffreDependents(d, offre_id) == {a \in d.abonnements : a.offre_id = offre_id}
AbonnementDependents(d, abonnement_id) ==
    {p \in d.paiements : p.abonnement_id = abonnement_id}

\* C1: delete_offre(o) returns False and leaves the offre row o in place
\* whenever some abonnement has offre_id = o, and delete_abonnement(s) returns
\* False and leaves the abonnement row s in place whenever some paiement has
\* abonnement_id = s.
C1_GuardRefusal ==
    [][ /\ (last'.op = "delete_offre" /\ OffreDependents(db, last'.args.id) # {})
           => /\ last'.ret = FALSE
              /\ ById(db'.offres, last'.args.id) = ById(db.offres, last'.args.id)
        /\ (last'.op = "delete_abonnement"
                /\ AbonnementDependents(db, last'.args.id) # {})
           => /\ last'.ret = FALSE
              /\ ById(db'.abonnements, last'.args.id)
                    = ById(db.abonnements, last'.args.id)
      ]_vars

\* A subscription with a payment has just been refused deletion and is still
\* there, and so is its offer, whose deletion was refused earlier in the run.
C1_Witness ==
    /\ last.op = "delete_abonnement"
    /\ last.ret = FALSE
    /\ AbonnementDependents(db, last.args.id) # {}
    /\ \E a \in ById(db.abonnements, last.args.id) :
          /\ <<"delete_offre", a.offre_id>> \in blocked
          /\ ById(db.offres, a.offre_id) # {}

\* C3: a delete_offre on an existing offre returns False while an abonnement
\* references it and returns True, removing the row, once none does (so the
\* first delete after the last referencing abonnement is gone succeeds); the
\* same for delete_abonnement with the paiements as dependents.
C3_GuardedDeleteOrder ==
    [][ /\ (last'.op = "delete_offre" /\ ById(db.offres, last'.args.id) # {})
           => /\ last'.ret = (OffreDependents(db, last'.args.id) = {})
              /\ last'.ret => ById(db'.offres, last'.args.id) = {}
        /\ (last'.op = "delete_abonnement"
                /\ ById(db.abonnements, last'.args.id) # {})
           => /\ last'.ret = (AbonnementDependents(db, last'.args.id) = {})
              /\ last'.ret => ById(db'.abonnements, last'.args.id) = {}
      ]_vars

\* An offer whose deletion had been refused has now been deleted, after a
\* subscription whose own deletion had been refused was deleted first.
C3_Witness ==
    /\ last.op = "delete_offre"
    /\ last.ret = TRUE
    /\ <<"delete_offre", last.args.id>> \in blocked
    /\ ById(db.offres, last.args.id) = {}
    /\ \E s \in Ids : /\ <<"delete_abonnement", s>> \in blocked
                      /\ ById(db.abonnements, s) = {}

NotFoundStatus == 404
ConflictStatus == 409

\* C5: a DELETE of an offre (abonnement) id with no matching row is answered
\* NotFound, a DELETE of an existing offre (abonnement) with dependents is
\* answered Conflict-Dependent, and the two answers differ.
C5_DeleteSignalsDistinct ==
    [][ /\ (last'.op = "delete_offre" /\ ById(db.offres, last'.args.id) = {})
           => last'.status = NotFoundStatus
        /\ (last'.op = "delete_offre" /\ ById(db.offres, last'.args.id) # {}
                /\ OffreDependents(db, last'.args.id) # {})
           => last'.status = ConflictStatus
        /\ (last'.op = "delete_abonnement"
                /\ ById(db.abonnements, last'.args.id) = {})
           => last'.status = NotFoundStatus
        /\ (last'.op = "delete_abonnement"
                /\ ById(db.abonnements, last'.args.id) # {}
                /\ AbonnementDependents(db, last'.args.id) # {})
           => last'.status = ConflictStatus
      ]_vars

TableOf(d, op) ==
    CASE op \in {"read_client", "update_client", "delete_client"} -> d.clients
      [] op \in {"read_offre", "update_offre", "delete_offre"} -> d.offres
      [] op \in {"read_abonnement", "update_abonnement", "delete_abonnement"}
            -> d.abonnements
      [] op \in {"read_paiement", "update_paiement", "delete_paiement"}
            -> d.paiements

ByIdRequests ==
    {"read_client", "update_client", "delete_client",
     "read_offre", "update_offre", "delete_offre",
     "read_abonnement", "update_abonnement", "delete_abonnement",
     "read_paiement", "update_paiement", "delete_paiement"}

\* C6: for every entity kind, a get, update or delete request whose id has
\* no matching row is answered 404 and leaves the store as it was.
C6_NotFoundAlike ==
    [][ (last'.op \in ByIdRequests /\ ById(TableOf(db, last'.op), last'.args.id) = {})
           => /\ last'.status = NotFoundStatus
              /\ Tables(db') = Tables(db)
      ]_vars

\* C7: a create of an abonnement whose client_id or offre_id names no row,
\* or an update whose supplied offre_id names no offre, is answered 404 and
\* adds or changes no abonnement row.
C7_ReferenceCheck ==
    [][ /\ (last'.op = "create_abonnement"
                /\ (ById(db.clients, last'.args.client_id) = {}
                       \/ ById(db.offres, last'.args.offre_id) = {}))
           => /\ last'.status = NotFoundStatus
              /\ db'.abonnements = db.abonnements
        /\ (last'.op = "update_abonnement" /\ last'.args.offre_id # None
                /\ ById(db.offres, Val(last'.args.offre_id)) = {})
           => /\ last'.status = NotFoundStatus
              /\ db'.abonnements = db.abonnements
      ]_vars

---------------------------------------------------------------------------
(* database.py: paginate_query and the five listing functions *)

\* math.ceil(total / limit) for total >= 0 and limit >= 1
ceil_div(total, limit) ==
    IF total % limit = 0 THEN total \div limit ELSE (total \div limit) + 1

\* total // limit: the division without the rounding up.
pages_floor(total, limit) ==
    IF total > 0 THEN total \div limit ELSE 1

\* "pages": math.ceil(total / limit) if total > 0 else 1
pages_of(total, limit) ==
    IF total > 0 THEN ceil_div(total, limit) ELSE 1

\* offset = (page - 1) * limit
offset_of(page, limit) == (page - 1) * limit

\* The pagination dict of lines 69-74.
pagination_of(total, page, limit) ==
    [total |-> total, page |-> page, limit |-> limit, pages |-> pages_of(total, limit)]

\* A statement: what it selects, the joined tables it reads, the conditions
\* ANDed in its WHERE clause in the order appended, and its ORDER BY.
Statement(select, from, where, order_by) ==
    [select |-> select, from |-> from, where |-> where, order_by |-> order_by]

\* The number of %s placeholders of one condition.
CondArity(cond) == IF cond = "nom ILIKE %s OR email ILIKE %s" THEN 2 ELSE 1

\* The joined abonnement's column of a row of either join.
a_client_id(row) == IF "a_client_id" \in DOMAIN row THEN row.a_client_id ELSE row.client_id
a_offre_id(row) == IF "a_offre_id" \in DOMAIN row THEN row.a_offre_id ELSE row.offre_id

\* One condition on one row, its placeholders bound to `ps`.
cond_holds(cond, row, ps) ==
    CASE cond = "nom ILIKE %s OR email ILIKE %s" ->
            ILIKE(row.nom, ps[1]) \/ ILIKE(row.email, ps[2])
      [] cond = "nom ILIKE %s" -> ILIKE(row.nom, ps[1])
      [] cond = "a.client_id = %s" -> a_client_id(row) = ps[1]
      [] cond = "a.offre_id = %s" -> a_offre_id(row) = ps[1]
      [] cond = "p.abonnement_id = %s" -> row.abonnement_id = ps[1]
      [] cond = "TO_CHAR(a.date_debut, 'YYYY-MM') = %s" ->
            TO_CHAR_YYYY_MM(row.date_debut) = ps[1]
      [] cond = "TO_CHAR(p.date_paiement, 'YYYY-MM') = %s" ->
            TO_CHAR_YYYY_MM(row.date_paiement) = ps[1]
      [] cond = "table_modifiee = %s" -> row.table_modifiee = ps[1]

RECURSIVE where_holds(_, _, _)
where_holds(row, conds, params) ==
    IF conds = <<>> THEN TRUE
    ELSE LET n == CondArity(Head(conds))
         IN /\ cond_holds(Head(conds), row, SubSeq(params, 1, n))
            /\ where_holds(row, Tail(conds), SubSeq(params, n + 1, Len(params)))

RECURSIVE Placeholders(_)
Placeholders(conds) ==
    IF conds = <<>> THEN 0 ELSE CondArity(Head(conds)) + Placeholders(Tail(conds))

\* The rows a FROM clause ranges over.
from_rows(d, from) ==
    CASE from = "clients" -> d.clients
      [] from = "offres" -> d.offres
      [] from = "abonnements a JOIN clients c JOIN offres o" -> abonnements_joined(d)
      [] from = "paiements p JOIN abonnements a JOIN clients c JOIN offres o" ->
            paiements_joined(d)
      [] from = "logs" -> d.logs

\* The rows of the statement's WHERE clause under the bound parameters.
selected(d, stmt, params) ==
    {row \in from_rows(d, stmt.from) : where_holds(row, stmt.where, params)}

\* The columns of the select list.
project(stmt, row) ==
    IF stmt.from = "paiements p JOIN abonnements a JOIN clients c JOIN offres o"
    THEN paiement_detail(row) ELSE row

\* r1 sorts strictly before r2 under ORDER BY ... DESC.
before(order_by, r1, r2) ==
    CASE order_by = "id DESC" -> r1.id > r2.id
      [] order_by = "a.date_debut DESC" -> DateLess(r2.date_debut, r1.date_debut)
      [] order_by = "p.date_paiement DESC" -> DateLess(r2.date_paiement, r1.date_paiement)
      [] order_by = "date_action DESC" -> DateLess(r2.date_action, r1.date_action)

\* Every order the store may return `rows` in under the ORDER BY: rows with
\* equal keys come in any order.
orderings(rows, order_by) ==
    {s \in [1..Cardinality(rows) -> rows] :
        /\ \A i, j \in 1..Cardinality(rows) : i # j => s[i] # s[j]
        /\ \A i, j \in 1..Cardinality(rows) : i < j => ~before(order_by, s[j], s[i])}

\* LIMIT %s OFFSET %s on an ordered result
limit_offset(s, limit, offset) ==
    IF offset >= Len(s) THEN <<>>
    ELSE SubSeq(s, offset + 1, IF offset + limit < Len(s) THEN offset + limit ELSE Len(s))

\* The select list applied to each row of an ordered result.
project_all(stmt, s) == [i \in DOMAIN s |-> project(stmt, s[i])]

\* paginate_query: every result it may return (one per order the store may
\* choose among equal sort keys).  A statement executed with a parameter list
\* that does not fit its placeholders raises.
paginate_query(d, query, count_query, params, page, limit) ==
    LET offset == offset_of(page, limit)
        paginated_params == params \o <<limit, offset>>
        n == Len(params)
        sql == [count_query |-> count_query, count_params |-> params,
                query |-> query, params |-> paginated_params]
    IN IF Placeholders(count_query.where) # n \/ Placeholders(query.where) # n
       THEN {[ret |-> [items |-> <<>>, pagination |-> pagination_of(0, page, limit)],
              raised |-> TypeError, sql |-> sql]}
       ELSE LET total == Cardinality(selected(d, count_query, params))
                rows == selected(d, query, SubSeq(paginated_params, 1, n))
            IN {[ret |-> [items |-> project_all(query,
                                       limit_offset(s, paginated_params[n + 1],
                                                    paginated_params[n + 2])),
                          pagination |-> pagination_of(total, page, limit)],
                  raised |-> NoExc, sql |-> sql] :
                    s \in orderings(rows, query.order_by)}

\* The statements and parameters a listing function has built so far.
Built(query, count_query, params) ==
    [query |-> query, count_query |-> count_query, params |-> params]

\* `query += cond`, `count_query += cond` and `params.append/extend(values)`
\* of one `if` block.
append(b, cond, values) ==
    Built([b.query EXCEPT !.where = @ \o <<cond>>],
          [b.count_query EXCEPT !.where = @ \o <<cond>>],
          b.params \o values)

\* `query += " ORDER BY ..."`
add_order_by(b, key) == [b EXCEPT !.query.order_by = key]

get_clients_built(search) ==
    LET b0 == Built(Statement("*", "clients", <<>>, ""),
                    Statement("COUNT(*)", "clients", <<>>, ""), <<>>)
        b1 == IF TruthyStr(search)
              THEN append(b0, "nom ILIKE %s OR email ILIKE %s",
                          <<WrapPercent(Val(search)), WrapPercent(Val(search))>>)
              ELSE b0
    IN add_order_by(b1, "id DESC")

db_get_clients(d, search, page, limit) ==
    LET b == get_clients_built(search)
    IN paginate_query(d, b.query, b.count_query, b.params, page, limit)

get_offres_built(search) ==
    LET b0 == Built(Statement("*", "offres", <<>>, ""),
                    Statement("COUNT(*)", "offres", <<>>, ""), <<>>)
        b1 == IF TruthyStr(search)
              THEN append(b0, "nom ILIKE %s", <<WrapPercent(Val(search))>>)
              ELSE b0
    IN add_order_by(b1, "id DESC")

db_get_offres(d, search, page, limit) ==
    LET b == get_offres_built(search)
    IN paginate_query(d, b.query, b.count_query, b.params, page, limit)

get_abonnements_built(client_id, offre_id, mois) ==
    LET b0 == Built(Statement("a.*, c.nom as client_nom, o.nom as offre_nom",
                              "abonnements a JOIN clients c JOIN offres o", <<>>, ""),
                    Statement("COUNT(*)",
                              "abonnements a JOIN clients c JOIN offres o", <<>>, ""),
                    <<>>)
        b1 == IF TruthyInt(client_id)
              THEN append(b0, "a.client_id = %s", <<Val(client_id)>>) ELSE b0
        b2 == IF TruthyInt(offre_id)
              THEN append(b1, "a.offre_id = %s", <<Val(offre_id)>>) ELSE b1
        b3 == IF TruthyStr(mois)
              THEN append(b2, "TO_CHAR(a.date_debut, 'YYYY-MM') = %s", <<Val(mois)>>) ELSE b2
    IN add_order_by(b3, "a.date_debut DESC")

db_get_abonnements(d, client_id, offre_id, mois, page, limit) ==
    LET b == get_abonnements_built(client_id, offre_id, mois)
    IN paginate_query(d, b.query, b.count_query, b.params, page, limit)

\* get_paiements with the month condition appended to the data query alone.
get_paiements_built_count_without_mois(abonnement_id, client_id, offre_id, mois) ==
    LET b0 == Built(Statement("p.*, c.nom as client_nom, o.nom as offre_nom",
                              "paiements p JOIN abonnements a JOIN clients c JOIN offres o",
                              <<>>, ""),
                    Statement("COUNT(*)",
                              "paiements p JOIN abonnements a JOIN clients c JOIN offres o",
                              <<>>, ""),
                    <<>>)
        b1 == IF TruthyInt(abonnement_id)
              THEN append(b0, "p.abonnement_id = %s", <<Val(abonnement_id)>>) ELSE b0
        b2 == IF TruthyInt(client_id)
              THEN append(b1, "a.client_id = %s", <<Val(client_id)>>) ELSE b1
        b3 == IF TruthyInt(offre_id)
              THEN append(b2, "a.offre_id = %s", <<Val(offre_id)>>) ELSE b2
        b4 == IF TruthyStr(mois)
              THEN Built([b3.query EXCEPT !.where =
                            @ \o <<"TO_CHAR(p.date_paiement, 'YYYY-MM') = %s">>],
                         b3.count_query, b3.params \o <<Val(mois)>>)
              ELSE b3
    IN add_order_by(b4, "p.date_paiement DESC")

get_paiements_built(abonnement_id, client_id, offre_id, mois) ==
    LET b0 == Built(Statement("p.*, c.nom as client_nom, o.nom as offre_nom",
                              "paiements p JOIN abonnements a JOIN clients c JOIN offres o",
                              <<>>, ""),
                    Statement("COUNT(*)",
                              "paiements p JOIN abonnements a JOIN clients c JOIN offres o",
                              <<>>, ""),
                    <<>>)
        b1 == IF TruthyInt(abonnement_id)
              THEN append(b0, "p.abonnement_id = %s", <<Val(abonnement_id)>>) ELSE b0
        b2 == IF TruthyInt(client_id)
              THEN append(b1, "a.client_id = %s", <<Val(client_id)>>) ELSE b1
        b3 == IF TruthyInt(offre_id)
              THEN append(b2, "a.offre_id = %s", <<Val(offre_id)>>) ELSE b2
        b4 == IF TruthyStr(mois)
              THEN append(b3, "TO_CHAR(p.date_paiement, 'YYYY-MM') = %s", <<Val(mois)>>)
              ELSE b3
    IN add_order_by(b4, "p.date_paiement DESC")

db_get_paiements(d, abonnement_id, client_id, offre_id, mois, page, limit) ==
    LET b == get_paiements_built(abonnement_id, client_id, offre_id, mois)
    IN paginate_query(d, b.query, b.count_query, b.params, page, limit)

get_logs_built(table) ==
    LET b0 == Built(Statement("*", "logs", <<>>, ""),
                    Statement("COUNT(*)", "logs", <<>>, ""), <<>>)
        b1 == IF TruthyStr(table)
              THEN append(b0, "table_modifiee = %s", <<Val(table)>>) ELSE b0
    IN add_order_by(b1, "date_action DESC")

db_get_logs(d, table, page, limit) ==
    LET b == get_logs_built(table)
    IN paginate_query(d, b.query, b.count_query, b.params, page, limit)

---------------------------------------------------------------------------
(* main.py: the listing handlers *)

\* The listing is answered with one of the results paginate_query may return.
ReplyList(op, args, results) ==
    \E r \in results :
        /\ last' = [op |-> op, args |-> args, ret |-> r.ret, raised |-> r.raised,
                    status |-> status_of(except_Exception(r.raised), 200),
                    sql |-> r.sql]
        /\ UNCHANGED <<db, blocked, procs>>

read_clients(search, page, limit) ==
    ReplyList("read_clients", [search |-> search, page |-> page, limit |-> limit],
              db_get_clients(db, search, page, limit))

read_offres(search, page, limit) ==
    ReplyList("read_offres", [search |-> search, page |-> page, limit |-> limit],
              db_get_offres(db, search, page, limit))

read_abonnements(client_id, offre_id, mois, page, limit) ==
    ReplyList("read_abonnements",
              [client_id |-> client_id, offre_id |-> offre_id, mois |-> mois,
               page |-> page, limit |-> limit],
              db_get_abonnements(db, client_id, offre_id, mois, page, limit))

read_paiements(abonnement_id, client_id, offre_id, mois, page, limit) ==
    ReplyList("read_paiements",
              [abonnement_id |-> abonnement_id, client_id |-> client_id,
               offre_id |-> offre_id, mois |-> mois, page |-> page, limit |-> limit],
              db_get_paiements(db, abonnement_id, client_id, offre_id, mois, page, limit))

read_logs(table, page, limit) ==
    ReplyList("read_logs", [table |-> table, page |-> page, limit |-> limit],
              db_get_logs(db, table, page, limit))

---------------------------------------------------------------------------
(* The pagination metadata as a function of its inputs *)

MaxTotal == 30
MaxPage == 3
MaxLimit == 10

\* paginate_query is about to compute its metadata from a counted total.
InitPage ==
    /\ db = EmptyDb
    /\ blocked = {}
    /\ procs = <<>>
    /\ \E total \in 0..MaxTotal, page \in 1..MaxPage, limit \in 1..MaxLimit :
          last = [op |-> "paginate_query",
                  args |-> [total |-> total, page |-> page, limit |-> limit],
                  ret |-> {}, raised |-> NoExc, status |-> 0]

\* Lines 69-74.
compute_pagination ==
    /\ last.op = "paginate_query"
    /\ last' = [last EXCEPT !.op = "pagination",
                            !.ret = pagination_of(last.args.total, last.args.page,
                                                  last.args.limit)]
    /\ UNCHANGED <<db, blocked, procs>>

NextPage == compute_pagination

SpecPage == InitPage /\ [][NextPage]_vars

\* C8: for every total >= 0, page >= 1 and limit >= 1 the metadata carries
\* total, page and limit unchanged, and pages is the least n >= 1 with
\* n * limit >= total, i.e. max(1, ceil(total / limit)): 25/10 -> 3,
\* 30/10 -> 3, 0/10 -> 1.
C8_PaginationCalculator ==
    last.op = "pagination" =>
        LET a == last.args
            m == last.ret
        IN /\ m.total = a.total /\ m.page = a.page /\ m.limit = a.limit
           /\ m.pages >= 1
           /\ m.pages * a.limit >= a.total
           /\ m.pages > 1 => (m.pages - 1) * a.limit < a.total
           /\ (a.total = 25 /\ a.limit = 10) => m.pages = 3
           /\ (a.total = 30 /\ a.limit = 10) => m.pages = 3
           /\ (a.total = 0 /\ a.limit = 10) => m.pages = 1

\* The metadata of 25 rows in pages of 10 has been computed: 3 pages.
C8_Witness ==
    /\ last.op = "pagination"
    /\ last.args.total = 25 /\ last.args.limit = 10 /\ last.args.page = 3
    /\ last.ret.pages = 3

---------------------------------------------------------------------------
(* Listings over a store that changes only between them *)

TableClients == <<"c", "l", "i", "e", "n", "t", "s">>
TableOffres == <<"o", "f", "f", "r", "e", "s">>
Mois1 == <<"2", "0", "2", "4", "-", "0", "3">>

\* A row of logs written by the store itself (this code only reads logs).
store_writes_log(table, date_action) ==
    /\ Cardinality(db.logs) + 1 \in Ids
    /\ db' = [db EXCEPT !.logs = @ \cup
                 {[id |-> Cardinality(db.logs) + 1, table_modifiee |-> table,
                   action |-> "INSERT", date_action |-> date_action,
                   donnees |-> None]}]
    /\ UNCHANGED <<last, blocked, procs>>

\* The requests that fill the store, table after table, parents first.  The
\* second abonnement and the second paiement either tie with the first on
\* the sort key or differ from it in every filtered column.
ListSetup ==
    \/ db.seq.clients = 0 /\ create_client(NomA, Email1)
    \/ db.seq.clients = 1 /\ create_client(NomB, Email2)
    \/ db.seq.clients = 2 /\ db.seq.offres = 0 /\ create_offre(NomA, None, None)
    \/ db.seq.offres = 1 /\ create_offre(NomB, None, None)
    \/ db.seq.offres = 2 /\ db.seq.abonnements = 0
          /\ create_abonnement(1, 1, Date1, None)
    \/ \E a \in {<<1, 1, Date1>>, <<2, 2, Date2>>} :
          db.seq.abonnements = 1 /\ create_abonnement(a[1], a[2], a[3], None)
    \/ db.seq.abonnements = 2 /\ db.seq.paiements = 0
          /\ create_paiement(1, 5, Date1)
    \/ \E date \in {Date1, Date2} :
          db.seq.paiements = 1 /\ create_paiement(2, 5, date)
    \/ db.seq.paiements = 2 /\ db.logs = {} /\ store_writes_log(TableClients, Date1)
    \/ db.logs # {} /\ store_writes_log(TableOffres, Date1)

PresentAbsent(v) == {None, Some(v)}
IdArgs == {None, Some(0), Some(1)}
TextArgs(v) == {None, Some(<<>>), Some(v)}
Paging == {<<1, 1>>, <<2, 1>>, <<1, 2>>}

ListRequest ==
    \E pl \in Paging :
        \/ \E search \in TextArgs(<<"a">>) : read_clients(search, pl[1], pl[2])
        \/ \E search \in PresentAbsent(<<"a">>) : read_offres(search, pl[1], pl[2])
        \/ \E c \in IdArgs, o \in PresentAbsent(1), mois \in PresentAbsent(Mois1) :
              read_abonnements(c, o, mois, pl[1], pl[2])
        \/ \E a \in PresentAbsent(1), c \in PresentAbsent(1), o \in PresentAbsent(1),
              mois \in PresentAbsent(Mois1) :
              read_paiements(a, c, o, mois, pl[1], pl[2])
        \/ \E table \in TextArgs(TableClients) : read_logs(table, pl[1], pl[2])

NextList == ListSetup \/ ListRequest

SpecList == Init /\ [][NextList]_vars

---------------------------------------------------------------------------
(* Properties of SpecList.  A listing leaves the store alone: in its step   *)
(* `db` is the store it read and the primed `last` its reply.              *)

ListOps == {"read_clients", "read_offres", "read_abonnements", "read_paiements",
            "read_logs"}

\* `sub` occurs in `s`, letter case ignored.
ContainsNoCase(s, sub) ==
    \E i \in 0..(Len(s) - Len(sub)) :
        \A k \in 1..Len(sub) : Lower(s[i + k]) = Lower(sub[k])

\* The rows a list operation ranges over and the key it sorts them by.
ListedRows(d, op) ==
    CASE op = "read_clients" -> d.clients
      [] op = "read_offres" -> d.offres
      [] op = "read_abonnements" -> abonnements_joined(d)
      [] op = "read_paiements" -> paiements_joined(d)
      [] op = "read_logs" -> d.logs

ListedOrder(op) ==
    CASE op = "read_clients" -> "id DESC"
      [] op = "read_offres" -> "id DESC"
      [] op = "read_abonnements" -> "a.date_debut DESC"
      [] op = "read_paiements" -> "p.date_paiement DESC"
      [] op = "read_logs" -> "date_action DESC"

ListedItem(op, row) == IF op = "read_paiements" THEN paiement_detail(row) ELSE row

\* The row matches every filter the request carries.
FilterMatches(op, args, row) ==
    CASE op = "read_clients" ->
            args.search # None =>
                \/ ContainsNoCase(row.nom, Val(args.search))
                \/ ContainsNoCase(row.email, Val(args.search))
      [] op = "read_offres" ->
            args.search # None => ContainsNoCase(row.nom, Val(args.search))
      [] op = "read_abonnements" ->
            /\ args.client_id # None => a_client_id(row) = Val(args.client_id)
            /\ args.offre_id # None => a_offre_id(row) = Val(args.offre_id)
            /\ args.mois # None =>
                  SubSeq(isoformat(row.date_debut), 1, 7) = Val(args.mois)
      [] op = "read_paiements" ->
            /\ args.abonnement_id # None => row.abonnement_id = Val(args.abonnement_id)
            /\ args.client_id # None => a_client_id(row) = Val(args.client_id)
            /\ args.offre_id # None => a_offre_id(row) = Val(args.offre_id)
            /\ args.mois # None =>
                  SubSeq(isoformat(row.date_paiement), 1, 7) = Val(args.mois)
      [] op = "read_logs" ->
            args.table # None => row.table_modifiee = Val(args.table)

\* The reply `l` holds the rows at positions (page-1)*limit ..
\* (page-1)*limit+limit-1 of the ordered rows of `d` matching the filters of
\* the request, and the number of all matching rows as its total.
ListingResult(d, l) ==
    LET a == l.args
        matching == {row \in ListedRows(d, l.op) : FilterMatches(l.op, a, row)}
        n == Cardinality(matching)
        first == (a.page - 1) * a.limit + 1
        items == l.ret.items
        meta == l.ret.pagination
    IN /\ l.raised = NoExc
       /\ meta.total = n
       /\ meta.page = a.page /\ meta.limit = a.limit
       /\ meta.pages >= 1 /\ meta.pages * a.limit >= n
       /\ meta.pages > 1 => (meta.pages - 1) * a.limit < n
       /\ first > n => items = <<>>
       /\ \E s \in orderings(matching, ListedOrder(l.op)) :
             /\ Len(items) = Cardinality({i \in first..(first + a.limit - 1) : i <= n})
             /\ \A k \in 1..Len(items) :
                   items[k] = ListedItem(l.op, s[first + k - 1])

\* C9: on a store at rest every listing returns the rows at positions
\* (page-1)*limit .. (page-1)*limit+limit-1 of the ordered rows matching the
\* filters it was given, pagination.total is the number of matching rows, and
\* a page beyond the last is empty with the total and pages of any other page.
C9_ListingResult ==
    [][(last'.op \in ListOps /\ db' = db) => ListingResult(db, last')]_vars

\* No filter value of the request is 0 or the empty string.
TruthyFilters(args) ==
    /\ \A f \in DOMAIN args \cap {"abonnement_id", "client_id", "offre_id"} :
          args[f] # Some(0)
    /\ \A f \in DOMAIN args \cap {"search", "mois", "table"} :
          args[f] # Some(<<>>)

\* The listing result of the requests whose filter values are all truthy.
ListingResultOfTruthy ==
    [][(last'.op \in ListOps /\ db' = db /\ TruthyFilters(last'.args))
          => ListingResult(db, last')]_vars

\* C10: in every listing the data query carries the conditions of the count
\* query in the same order, and is executed with the count query's parameter
\* list followed by limit and offset only.
C10_SharedPredicate ==
    last.op \in ListOps =>
        /\ last.sql.query.from = last.sql.count_query.from
        /\ last.sql.query.where = last.sql.count_query.where
        /\ last.sql.params =
              last.sql.count_params
                  \o <<last.args.limit, (last.args.page - 1) * last.args.limit>>

\* A listing of paiements with its four filters present that found a row.
C10_Witness ==
    /\ last.op = "read_paiements"
    /\ None \notin {last.args.abonnement_id, last.args.client_id,
                    last.args.offre_id, last.args.mois}
    /\ Len(last.sql.count_query.where) = 4
    /\ Len(last.sql.count_params) = 4
    /\ last.ret.items # <<>>

---------------------------------------------------------------------------
(* Two server processes, each answering one request statement by statement *)
(* against the one store.  Every statement reads what is committed (READ    *)
(* COMMITTED, the default of a psycopg2 connection); a transaction's last   *)
(* writing statement and its commit are one step; no statement takes a lock *)
(* on a row it only reads.                                                  *)

Procs == 1..2

ConcRequest(op, args) == [op |-> op, args |-> args]

ConcRequests ==
    {ConcRequest("delete_offre", [id |-> 1]),
     ConcRequest("create_abonnement",
                 [client_id |-> 1, offre_id |-> 1, date_debut |-> Date1, date_fin |-> None]),
     ConcRequest("delete_abonnement", [id |-> 1]),
     ConcRequest("create_paiement",
                 [abonnement_id |-> 1, montant |-> 5, date_paiement |-> Date1]),
     ConcRequest("update_paiement", [id |-> 1, montant |-> Some(7), date_paiement |-> None]),
     ConcRequest("update_paiement", [id |-> 1, montant |-> None, date_paiement |-> Some(Date2)]),
     ConcRequest("update_abonnement",
                 [id |-> 1, offre_id |-> Some(2), date_debut |-> None, date_fin |-> None]),
     ConcRequest("update_abonnement",
                 [id |-> 1, offre_id |-> None, date_debut |-> Some(Date2), date_fin |-> None])}

\* The first statement of the handler of `op`.
FirstPc(req) ==
    CASE req.op = "delete_offre" -> "count"
      [] req.op = "delete_abonnement" -> "count"
      [] req.op = "create_abonnement" -> "get_client"
      [] req.op = "create_paiement" -> "get_abonnement"
      [] req.op = "update_paiement" -> "select_current"
      [] req.op = "update_abonnement" ->
            IF req.args.offre_id # None THEN "get_offre" ELSE "select_current"

\* A process at the start of its request: `rows` are the rows its open or
\* previous cursor fetched or wrote.
Started(req) ==
    [op |-> req.op, args |-> req.args, pc |-> FirstPc(req), rows |-> {}, status |-> 0]

\* The requests that fill the store before the two processes start.
ConcSetup ==
    /\ procs = <<>>
    /\ \/ db.seq.clients = 0 /\ create_client(NomA, Email1)
       \/ db.seq.clients = 1 /\ db.seq.offres = 0 /\ create_offre(NomA, None, None)
       \/ db.seq.offres = 1 /\ create_offre(NomB, None, None)
       \/ db.seq.offres = 2 /\ db.seq.abonnements = 0
             /\ create_abonnement(1, 1, Date1, None)
       \/ db.seq.abonnements = 1 /\ db.seq.paiements = 0 /\ create_paiement(1, 5, Date1)

\* Two requests arrive, one at each process.
Start ==
    /\ procs = <<>>
    /\ \E r1 \in ConcRequests, r2 \in ConcRequests :
          procs' = <<Started(r1), Started(r2)>>
    /\ UNCHANGED <<db, last, blocked>>

At(p, op, pc) == procs # <<>> /\ procs[p].op = op /\ procs[p].pc = pc

\* The process goes on to statement `pc` holding `rows`; the store becomes `d`.
Goto(p, pc, rows, d) ==
    /\ db' = d
    /\ procs' = [procs EXCEPT ![p].pc = pc, ![p].rows = rows]
    /\ UNCHANGED <<last, blocked>>

\* The process answers its request.
Finish(p, r, raised, status) ==
    /\ db' = r.db
    /\ procs' = [procs EXCEPT ![p].pc = "done", ![p].rows = {}, ![p].status = status]
    /\ last' = [op |-> procs[p].op, args |-> procs[p].args, ret |-> r.ret,
                raised |-> raised, status |-> status]
    /\ UNCHANGED blocked

\* delete_offre: SELECT COUNT(*) ... and `if result["count"] > 0: return False`
delete_offre_count(p) ==
    /\ At(p, "delete_offre", "count")
    /\ IF count_abonnements_of_offre(db, procs[p].args.id) > 0
       THEN LET r == get_db_cursor(db, Returned(db, FALSE), TRUE)
                raised == raise_if_false(r, 409)
            IN Finish(p, r, raised, status_of(except_Exception(raised), 200))
       ELSE Goto(p, "delete", {}, db)

\* delete_offre: DELETE ... RETURNING id, and the commit
delete_offre_delete(p) ==
    /\ At(p, "delete_offre", "delete")
    /\ LET r == get_db_cursor(db, delete_from_offres(db, procs[p].args.id), TRUE)
           raised == raise_if_false(r, 409)
       IN Finish(p, r, raised, status_of(except_Exception(raised), 200))

delete_abonnement_count(p) ==
    /\ At(p, "delete_abonnement", "count")
    /\ IF count_paiements_of_abonnement(db, procs[p].args.id) > 0
       THEN LET r == get_db_cursor(db, Returned(db, FALSE), TRUE)
                raised == raise_if_false(r, 409)
            IN Finish(p, r, raised, status_of(except_Exception(raised), 200))
       ELSE Goto(p, "delete", {}, db)

delete_abonnement_delete(p) ==
    /\ At(p, "delete_abonnement", "delete")
    /\ LET r == get_db_cursor(db, delete_from_abonnements(db, procs[p].args.id), TRUE)
           raised == raise_if_false(r, 409)
       IN Finish(p, r, raised, status_of(except_Exception(raised), 200))

\* `if not row: raise HTTPException(404)` inside the try of a handler whose
\* route answers `ok_status`, else on to statement `pc`.
CheckExists(p, r, ok_status, pc) ==
    IF r.ret = {}
    THEN Finish(p, Returned(r.db, {}), HTTPException(404),
                status_of(except_Exception(HTTPException(404)), ok_status))
    ELSE Goto(p, pc, {}, r.db)

\* create_abonnement: `client = db.get_client(...)`
create_abonnement_get_client(p) ==
    /\ At(p, "create_abonnement", "get_client")
    /\ CheckExists(p, db_get_client(db, procs[p].args.client_id), 201, "get_offre")

\* create_abonnement: `offre = db.get_offre(...)`
create_abonnement_get_offre(p) ==
    /\ At(p, "create_abonnement", "get_offre")
    /\ CheckExists(p, db_get_offre(db, procs[p].args.offre_id), 201, "insert")

\* create_abonnement: INSERT ... RETURNING *; the row stays uncommitted in
\* `rows`, its id is drawn from the sequence for good.
create_abonnement_insert(p) ==
    /\ At(p, "create_abonnement", "insert")
    /\ LET a == procs[p].args
           ins == insert_into_abonnements(db, a.client_id, a.offre_id,
                                          isoformat(a.date_debut), isoformat_opt(a.date_fin))
       IN Goto(p, "select_names", ins.ret, [db EXCEPT !.seq = ins.db.seq])

\* create_abonnement: SELECT c.nom, o.nom ..., the enrichment and the commit
create_abonnement_select_names(p) ==
    /\ At(p, "create_abonnement", "select_names")
    /\ LET a == procs[p].args
           mine == [db EXCEPT !.abonnements = @ \cup procs[p].rows]
           r == get_db_cursor(db,
                    enrich(mine, procs[p].rows, select_names(mine, a.client_id, a.offre_id)),
                    TRUE)
       IN Finish(p, r, r.raised, status_of(except_Exception(r.raised), 201))

\* create_paiement: `abonnement = db.get_abonnement(...)`
create_paiement_get_abonnement(p) ==
    /\ At(p, "create_paiement", "get_abonnement")
    /\ CheckExists(p, db_get_abonnement(db, procs[p].args.abonnement_id), 201, "insert")

create_paiement_insert(p) ==
    /\ At(p, "create_paiement", "insert")
    /\ LET a == procs[p].args
           ins == insert_into_paiements(db, a.abonnement_id, a.montant,
                                        isoformat(a.date_paiement))
       IN Goto(p, "select_names", ins.ret, [db EXCEPT !.seq = ins.db.seq])

create_paiement_select_names(p) ==
    /\ At(p, "create_paiement", "select_names")
    /\ LET a == procs[p].args
           mine == [db EXCEPT !.paiements = @ \cup procs[p].rows]
           r == get_db_cursor(db,
                    enrich(mine, procs[p].rows,
                           select_names_of_abonnement(mine, a.abonnement_id)),
                    TRUE)
       IN Finish(p, r, r.raised, status_of(except_Exception(r.raised), 201))

\* update_paiement: SELECT * FROM paiements WHERE id = %s in a cursor of its
\* own, closed without commit; `if not current: return None`
update_paiement_select_current(p) ==
    /\ At(p, "update_paiement", "select_current")
    /\ LET first == get_db_cursor(db, Returned(db, ById(db.paiements, procs[p].args.id)),
                                  FALSE)
           raised == raise_if_none(first, 404)
       IN IF first.ret = {}
          THEN Finish(p, first, raised, status_of(except_Exception(raised), 200))
          ELSE Goto(p, "update", first.ret, first.db)

\* update_paiement: the new values from `current`, UPDATE ... RETURNING *,
\* the enrichment and the commit
update_paiement_update(p) ==
    /\ At(p, "update_paiement", "update")
    /\ LET a == procs[p].args
           current == CHOOSE row \in procs[p].rows : TRUE
           new == paiement_new_values(current, a.montant, isoformat_opt(a.date_paiement))
           upd == update_paiements(db, a.id, new)
           abonnement_ids == {row.abonnement_id : row \in upd.ret}
           r == get_db_cursor(db,
                    enrich(upd.db, upd.ret,
                           UNION {select_names_of_abonnement(upd.db, i) :
                                     i \in abonnement_ids}),
                    TRUE)
           raised == raise_if_none(r, 404)
       IN Finish(p, r, raised, status_of(except_Exception(raised), 200))

\* update_abonnement: `offre = db.get_offre(...)` when an offre_id is given
update_abonnement_get_offre(p) ==
    /\ At(p, "update_abonnement", "get_offre")
    /\ CheckExists(p, db_get_offre(db, Val(procs[p].args.offre_id)), 200, "select_current")

update_abonnement_select_current(p) ==
    /\ At(p, "update_abonnement", "select_current")
    /\ LET first == get_db_cursor(db, Returned(db, ById(db.abonnements, procs[p].args.id)),
                                  FALSE)
           raised == raise_if_none(first, 404)
       IN IF first.ret = {}
          THEN Finish(p, first, raised, status_of(except_Exception(raised), 200))
          ELSE Goto(p, "update", first.ret, first.db)

update_abonnement_update(p) ==
    /\ At(p, "update_abonnement", "update")
    /\ LET a == procs[p].args
           current == CHOOSE row \in procs[p].rows : TRUE
           new == abonnement_new_values(current, a.offre_id, isoformat_opt(a.date_debut),
                                        isoformat_opt(a.date_fin))
           upd == update_abonnements(db, a.id, new)
           client_ids == {row.client_id : row \in upd.ret}
           r == get_db_cursor(db,
                    enrich(upd.db, upd.ret,
                           UNION {select_names(upd.db, c, new.offre_id) : c \in client_ids}),
                    TRUE)
           raised == raise_if_none(r, 404)
       IN Finish(p, r, raised, status_of(except_Exception(raised), 200))

Step(p) ==
    \/ delete_offre_count(p)
    \/ delete_offre_delete(p)
    \/ delete_abonnement_count(p)
    \/ delete_abonnement_delete(p)
    \/ create_abonnement_get_client(p)
    \/ create_abonnement_get_offre(p)
    \/ create_abonnement_insert(p)
    \/ create_abonnement_select_names(p)
    \/ create_paiement_get_abonnement(p)
    \/ create_paiement_insert(p)
    \/ create_paiement_select_names(p)
    \/ update_paiement_select_current(p)
    \/ update_paiement_update(p)
    \/ update_abonnement_get_offre(p)
    \/ update_abonnement_select_current(p)
    \/ update_abonnement_update(p)

NextConc == ConcSetup \/ Start \/ \E p \in Procs : Step(p)

SpecConc == Init /\ [][NextConc]_vars

---------------------------------------------------------------------------
(* Properties of the concurrent specification SpecConc *)

AllDone == procs # <<>> /\ \A p \in Procs : procs[p].pc = "done"

\* One process ran `op1` and the other `op2`.
Ran(op1, op2) ==
    \E p, q \in Procs : p # q /\ procs[p].op = op1 /\ procs[q].op = op2

\* C2: when delete_offre(o) ran with a concurrent create_abonnement
\* referencing o, or delete_abonnement(s) with a concurrent create_paiement
\* referencing s, the run does not end with the parent row deleted while a
\* committed dependent row references it.
C2_NoDependentSlips ==
    /\ (AllDone /\ Ran("delete_offre", "create_abonnement")) =>
          \A a \in db.abonnements : ById(db.offres, a.offre_id) # {}
    /\ (AllDone /\ Ran("delete_abonnement", "create_paiement")) =>
          \A x \in db.paiements : ById(db.abonnements, x.abonnement_id) # {}

\* Both processes updated row `id`, one giving only `f1` and the other only
\* `f2` among `fields`, and both were answered 200.
PartialUpdates(op, f1, f2, fields) ==
    \E p, q \in Procs :
        /\ p # q
        /\ procs[p].op = op /\ procs[q].op = op
        /\ procs[p].args.id = procs[q].args.id
        /\ procs[p].status = 200 /\ procs[q].status = 200
        /\ \A f \in fields : (procs[p].args[f] # None) = (f = f1)
        /\ \A f \in fields : (procs[q].args[f] # None) = (f = f2)

\* The values given by either process for field `f` of the row they updated.
Given(op, f) ==
    {Val(procs[p].args[f]) : p \in {q \in Procs : procs[q].op = op /\ procs[q].args[f] # None}}

\* C4: after two concurrent update_paiement calls on one payment, one giving
\* only montant and the other only date_paiement, the stored row holds both
\* new values; the same for update_abonnement with offre_id and date_debut.
C4_BothValuesKept ==
    /\ (AllDone /\ PartialUpdates("update_paiement", "montant", "date_paiement",
                                  {"montant", "date_paiement"})) =>
          \A row \in ById(db.paiements, procs[1].args.id) :
              /\ row.montant \in Given("update_paiement", "montant")
              /\ row.date_paiement \in Given("update_paiement", "date_paiement")
    /\ (AllDone /\ PartialUpdates("update_abonnement", "offre_id", "date_debut",
                                  {"offre_id", "date_debut", "date_fin"})) =>
          \A row \in ById(db.abonnements, procs[1].args.id) :
              /\ row.offre_id \in Given("update_abonnement", "offre_id")
              /\ row.date_debut \in Given("update_abonnement", "date_debut")

---------------------------------------------------------------------------
(* Further properties of the sequential specification Spec *)

\* The rows of the store (the id sequences apart).
Rows(d) == <<d.clients, d.offres, d.abonnements, d.paiements, d.logs>>

\* The request sets the email of a client to that of another client, or the
\* name of an offre to that of another offre.
UniqueConflict(d, req) ==
    \/ req.op = "create_client" /\ \E c \in d.clients : c.email = req.args.email
    \/ req.op = "update_client" /\ ById(d.clients, req.args.id) # {}
          /\ \E c \in d.clients : c.id # req.args.id /\ c.email = req.args.email
    \/ req.op = "create_offre" /\ \E o \in d.offres : o.nom = req.args.nom
    \/ req.op = "update_offre" /\ ById(d.offres, req.args.id) # {}
          /\ \E o \in d.offres : o.id # req.args.id /\ o.nom = req.args.nom

\* C13: a create or update of a client whose email is another client's, or of
\* an offre whose name is another offre's, is answered 409 (not the generic
\* 500) and leaves every row of the store as it was.
C13_ConflictUnique ==
    [][ UniqueConflict(db, last') =>
           /\ last'.status = ConflictStatus
           /\ last'.status # 500
           /\ Rows(db') = Rows(db)
      ]_vars

\* An update gave client 2 the email of client 1 and was answered 409.
C13_Witness ==
    /\ last.op = "update_client"
    /\ last.status = ConflictStatus
    /\ last.raised.type = "UniqueViolation"
    /\ \E c \in db.clients : c.id # last.args.id /\ c.email = last.args.email
    /\ \E c \in ById(db.clients, last.args.id) : c.email # last.args.email

\* The exceptions a repository call raises (those of the store and of its own
\* statements; the handlers' HTTPException apart).
RepositoryRaised(l) == l.raised.type \in {"UniqueViolation", "TypeError"}

\* C14: when a repository mutation raises, also after its INSERT or UPDATE
\* was executed, every row of the store is as before the call, and the
\* statement was executed once (at most one id was drawn).
C14_FailureRollsBack ==
    [][ RepositoryRaised(last') =>
           /\ Rows(db') = Rows(db)
           /\ TotalInserted(db') <= TotalInserted(db) + 1
      ]_vars

\* An update_abonnement raised after its UPDATE, the client of the
\* abonnement being gone, and the abonnement still references the old offre.
C14_Witness ==
    /\ last.op = "update_abonnement"
    /\ last.raised.type = "TypeError"
    /\ last.args.offre_id # None
    /\ \E a \in ById(db.abonnements, last.args.id) :
          /\ a.offre_id # Val(last.args.offre_id)
          /\ ById(db.clients, a.client_id) = {}

\* C17: the row a successful update_abonnement returns carries the name of
\* the offre the abonnement references after the update and the name of its
\* client, the names get_abonnement returns for that id right after.
C17_ReEnrichment ==
    [][ (last'.op = "update_abonnement" /\ last'.status = 200) =>
           /\ last'.ret # {}
           /\ \A r \in last'.ret :
                 /\ \E o \in db'.offres : o.id = r.offre_id /\ o.nom = r.offre_nom
                 /\ \E c \in db'.clients : c.id = r.client_id /\ c.nom = r.client_nom
                 /\ last'.args.offre_id # None => r.offre_id = Val(last'.args.offre_id)
                 /\ last'.args.offre_id = None =>
                       \E a \in ById(db.abonnements, r.id) : a.offre_id = r.offre_id
                 /\ \E a \in ById(db.abonnements, r.id) : a.client_id = r.client_id
           /\ {[client_nom |-> r.client_nom, offre_nom |-> r.offre_nom] : r \in last'.ret}
                 = {[client_nom |-> g.client_nom, offre_nom |-> g.offre_nom] :
                       g \in db_get_abonnement(db', last'.args.id).ret}
      ]_vars

\* An update moved an abonnement to another offre and returned that offre's
\* name, which differs from the name of the offre it had.
C17_Witness ==
    /\ last.op = "update_abonnement"
    /\ last.status = 200
    /\ last.args.offre_id # None
    /\ \E r \in last.ret :
          /\ r.offre_id = Val(last.args.offre_id)
          /\ \E o \in db.offres : o.id = r.offre_id /\ o.nom = r.offre_nom
          /\ \E o \in db.offres : o.id # r.offre_id /\ o.nom # r.offre_nom

\* C19: after any sequence of requests answered one at a time, every paiement
\* references an existing abonnement and every abonnement an existing offre.
C19_ReferentialIntegrity ==
    /\ \A p \in db.paiements : ById(db.abonnements, p.abonnement_id) # {}
    /\ \A a \in db.abonnements : ById(db.offres, a.offre_id) # {}

\* Both guards have refused a delete and the rows they protect are there.
C19_Witness ==
    /\ \E p \in db.paiements : <<"delete_abonnement", p.abonnement_id>> \in blocked
    /\ \E a \in db.abonnements : <<"delete_offre", a.offre_id>> \in blocked
    /\ last.op \in {"delete_offre", "delete_abonnement"}
    /\ last.ret = FALSE

---------------------------------------------------------------------------
(* Requests one at a time over rows whose optional fields are filled: the   *)
(* store is seeded parents first, and updates give or omit each field.      *)

FieldsSetup ==
    \/ db.seq.clients = 0 /\ create_client(NomB, Email1)
    \/ db.seq.offres = 0 /\ create_offre(NomA, Some(10), Some(20))
    \/ db.seq.offres = 1 /\ create_offre(NomB, None, None)
    \/ \E date_fin \in {None, Some(Date2)} :
          db.seq.abonnements = 0 /\ create_abonnement(1, 1, Date1, date_fin)
    \/ db.seq.paiements = 0 /\ create_paiement(1, 5, Date1)

FieldsUpdate ==
    \/ \E debit_mbps \in {None, Some(30)}, prix \in {None, Some(40)} :
          update_offre(1, NomA, debit_mbps, prix)
    \/ \E offre_id \in {None, Some(2)}, date_debut \in {None, Some(Date2)} :
          update_abonnement(1, offre_id, date_debut, None)
    \/ \E montant \in {None, Some(7)}, date_paiement \in {None, Some(Date2)} :
          update_paiement(1, montant, date_paiement)

FieldsRead ==
    \/ read_client(1)
    \/ \E id \in Ids : read_offre(id)
    \/ read_abonnement(1)
    \/ read_paiement(1)

NextFields == FieldsSetup \/ FieldsUpdate \/ FieldsRead

SpecFields == Init /\ [][NextFields]_vars

\* C11: an update_offre called without debit_mbps (without prix) leaves the
\* stored debit_mbps (prix) of the offre as it was, not null.
C11_OffrePartialUpdate ==
    [][ (last'.op = "update_offre" /\ last'.status = 200) =>
           \A old \in ById(db.offres, last'.args.id) :
              \A new \in ById(db'.offres, last'.args.id) :
                 /\ last'.args.debit_mbps = None => new.debit_mbps = old.debit_mbps
                 /\ last'.args.prix = None => new.prix = old.prix
      ]_vars

\* C12: with requests answered one at a time, a successful update_paiement
\* giving only montant sets montant and leaves date_paiement and
\* abonnement_id of the paiement and every other row as they were; the same
\* with date_paiement given and montant omitted.
C12_PaiementPartialUpdate ==
    [][ (last'.op = "update_paiement" /\ last'.status = 200) =>
           LET a == last'.args
               old == ById(db.paiements, a.id)
               new == ById(db'.paiements, a.id)
           IN /\ old # {} /\ Cardinality(new) = 1
              /\ db'.paiements \ new = db.paiements \ old
              /\ db'.clients = db.clients /\ db'.offres = db.offres
              /\ db'.abonnements = db.abonnements /\ db'.logs = db.logs
              /\ \A o \in old, n \in new :
                    /\ n.abonnement_id = o.abonnement_id
                    /\ n.montant = IF a.montant # None THEN Val(a.montant) ELSE o.montant
                    /\ n.date_paiement = IF a.date_paiement # None
                                         THEN Val(a.date_paiement) ELSE o.date_paiement
      ]_vars

\* The montant alone was updated: the paiement holds the new montant and a
\* date_paiement that an earlier update, of the date alone, had set.
C12_Witness ==
    /\ last.op = "update_paiement"
    /\ last.status = 200
    /\ last.args.montant = Some(7) /\ last.args.date_paiement = None
    /\ \E p \in ById(db.paiements, last.args.id) :
          p.montant = 7 /\ p.date_paiement = Date2

CreateOps == {"create_client", "create_offre", "create_abonnement", "create_paiement"}

ReadOf(op) ==
    CASE op = "create_client" -> "read_client"
      [] op = "create_offre" -> "read_offre"
      [] op = "create_abonnement" -> "read_abonnement"
      [] op = "create_paiement" -> "read_paiement"

\* C15: a successful create followed at once by a get of the returned id
\* yields the submitted field values, and for abonnements and paiements the
\* client_nom and offre_nom the create returned.
C15_CreateGetRoundTrip ==
    [][ (/\ last.op \in CreateOps /\ last.status = 201
         /\ last'.op = ReadOf(last.op)
         /\ \E c \in last.ret : c.id = last'.args.id) =>
           /\ last'.status = 200
           /\ Cardinality(last'.ret) = 1
           /\ \A g \in last'.ret :
                 /\ \A f \in DOMAIN last.args : g[f] = last.args[f]
                 /\ \A c \in last.ret :
                       \A f \in DOMAIN c \cap {"client_nom", "offre_nom"} : g[f] = c[f]
      ]_vars

\* An abonnement with an end date was created and then read back with its
\* dates and names.
C15_Witness ==
    /\ last.op = "read_abonnement"
    /\ last.status = 200
    /\ \E g \in last.ret :
          /\ g.date_debut = Date1 /\ g.date_fin = Some(Date2)
          /\ g.client_nom = NomB /\ g.offre_nom = NomA
    /\ db.seq.paiements = 0
    /\ \A a \in db.abonnements : a.offre_id = 1 /\ a.date_debut = Date1

---------------------------------------------------------------------------
(* main.py: the page and limit parameters of the listing routes, and the    *)
(* two statistics routes                                                    *)

\* `limit: int = Query(10, ge=1, le=100)`
LimitMax == 100

\* `limit=1000` of stats_paiements and stats_abonnements
StatsLimit == 1000

\* `page: int = Query(1, ge=1)`, `limit: int = Query(10, ge=1, le=100)`
Query_ge_le(page, limit) == page >= 1 /\ limit >= 1 /\ limit <= LimitMax

\* FastAPI answers 422 without entering the handler.
RequestValidationError(op, args) ==
    /\ last' = [op |-> op, args |-> args, ret |-> {}, raised |-> NoExc, status |-> 422,
                sql |-> <<>>]
    /\ UNCHANGED <<db, blocked, procs>>

stats_paiements(mois, offre) ==
    ReplyList("stats_paiements", [mois |-> mois, offre |-> offre],
              db_get_paiements(db, None, None, offre, mois, 1, StatsLimit))

stats_abonnements(mois, offre) ==
    ReplyList("stats_abonnements", [mois |-> mois, offre |-> offre],
              db_get_abonnements(db, None, offre, mois, 1, StatsLimit))

\* The values a caller may send for page and limit, valid or not.
PageArgs == {0, 1, 2}
LimitArgs == {0, 1, LimitMax, LimitMax + 1}

BoundaryRequest ==
    \/ \E page \in PageArgs, limit \in LimitArgs :
          \/ Query_ge_le(page, limit) /\ read_clients(None, page, limit)
          \/ Query_ge_le(page, limit) /\ read_offres(None, page, limit)
          \/ Query_ge_le(page, limit) /\ read_abonnements(None, None, None, page, limit)
          \/ Query_ge_le(page, limit) /\ read_paiements(None, None, None, None, page, limit)
          \/ Query_ge_le(page, limit) /\ read_logs(None, page, limit)
          \/ \E op \in {"read_clients", "read_offres", "read_abonnements",
                        "read_paiements", "read_logs"} :
                /\ ~Query_ge_le(page, limit)
                /\ RequestValidationError(op, [page |-> page, limit |-> limit])
    \/ \E mois \in {None, Some(Mois1)}, offre \in {None, Some(1)} :
          stats_paiements(mois, offre)
    \/ \E mois \in {None, Some(Mois1)}, offre \in {None, Some(1)} :
          stats_abonnements(mois, offre)

NextBoundary == ListSetup \/ BoundaryRequest

SpecBoundary == Init /\ [][NextBoundary]_vars

\* The repository's listing functions were called by this request.
ListingCalled ==
    /\ last.op \in {"read_clients", "read_offres", "read_abonnements", "read_paiements",
                    "read_logs", "stats_paiements", "stats_abonnements"}
    /\ last.status # 422

\* C16: every call from the handlers into a listing function passes
\* page >= 1 and 1 <= limit <= 100, so every pagination metadata produced has
\* its limit in 1..100.
C16_PageSizeBound ==
    ListingCalled =>
        /\ last.ret.pagination.page >= 1
        /\ last.ret.pagination.limit >= 1
        /\ last.ret.pagination.limit <= LimitMax
        /\ last.sql.params[Len(last.sql.params) - 1] <= LimitMax

---------------------------------------------------------------------------
(* database.py: get_db_connection and get_db_cursor statement by statement. *)
(* `procs` holds the one repository call in progress: the `with` block it   *)
(* is in, the connections and cursors it has open, whether an exception is  *)
(* propagating, and how it ended.                                           *)

\* The `with get_db_cursor(commit=...)` blocks of a repository function, in
\* order, and whether the block holds a `return` before its end (not found,
\* guard refusal).
RepositoryCall(op, commits, early) == [op |-> op, commits |-> commits, early |-> early]

RepositoryCalls ==
    {RepositoryCall("paginate_query", <<FALSE>>, <<FALSE>>),
     RepositoryCall("get_client", <<FALSE>>, <<FALSE>>),
     RepositoryCall("create_client", <<TRUE>>, <<FALSE>>),
     RepositoryCall("delete_client", <<TRUE>>, <<FALSE>>),
     RepositoryCall("delete_offre", <<TRUE>>, <<TRUE>>),
     RepositoryCall("create_abonnement", <<TRUE>>, <<FALSE>>),
     RepositoryCall("update_abonnement", <<FALSE, TRUE>>, <<TRUE, FALSE>>),
     RepositoryCall("delete_abonnement", <<TRUE>>, <<TRUE>>),
     RepositoryCall("update_paiement", <<FALSE, TRUE>>, <<TRUE, FALSE>>)}

\* The function is entered (no call is in progress).
call ==
    /\ IF procs = <<>> THEN TRUE ELSE procs[1].pc \in {"returned", "raised"}
    /\ \E c \in RepositoryCalls :
          procs' = <<[op |-> c.op, commits |-> c.commits, early |-> c.early, block |-> 1,
                      pc |-> "connect", conns |-> 0, cursors |-> 0, acquired |-> 0,
                      exc |-> FALSE, exit |-> ""]>>
    /\ UNCHANGED <<db, last, blocked>>

InCall(pc) == procs # <<>> /\ procs[1].pc = pc

\* `conn = psycopg2.connect(**DB_CONFIG)`: a connection, or the store is
\* unreachable and the call raises with nothing opened.
connect ==
    /\ InCall("connect")
    /\ \/ procs' = [procs EXCEPT ![1].conns = @ + 1, ![1].acquired = @ + 1,
                                 ![1].pc = "cursor"]
       \/ procs' = [procs EXCEPT ![1].exc = TRUE, ![1].pc = "raised"]
    /\ UNCHANGED <<db, last, blocked>>

\* get_db_connection closing its connection after the yield without a
\* try/finally: an exception thrown into the generator skips conn.close().
get_db_connection_without_finally(exc) == IF exc THEN "raised" ELSE "conn_close"

\* The statement get_db_connection goes on with when its `yield conn` comes
\* back, normally or with an exception: the `finally` clause.
get_db_connection_finally(exc) == "conn_close"

\* `cursor = conn.cursor(...)`, before the try of get_db_cursor
cursor ==
    /\ InCall("cursor")
    /\ \/ procs' = [procs EXCEPT ![1].cursors = @ + 1, ![1].pc = "body"]
       \/ procs' = [procs EXCEPT ![1].exc = TRUE,
                                 ![1].pc = get_db_connection_finally(TRUE)]
    /\ UNCHANGED <<db, last, blocked>>

\* `yield cursor`: the body of the with block runs to its end, returns before
\* it, or raises.
body ==
    /\ InCall("body")
    /\ \E exit \in {"end", "raise"} \cup
                     (IF procs[1].early[procs[1].block] THEN {"return"} ELSE {}) :
          procs' = [procs EXCEPT ![1].exit = exit,
                                 ![1].exc = (exit = "raise"),
                                 ![1].pc = IF exit = "raise" THEN "rollback"
                                           ELSE IF procs[1].commits[procs[1].block]
                                                THEN "commit" ELSE "cursor_close"]
    /\ UNCHANGED <<db, last, blocked>>

\* `if commit: conn.commit()`, inside the try
commit ==
    /\ InCall("commit")
    /\ \/ procs' = [procs EXCEPT ![1].pc = "cursor_close"]
       \/ procs' = [procs EXCEPT ![1].exc = TRUE, ![1].pc = "rollback"]
    /\ UNCHANGED <<db, last, blocked>>

\* `except Exception: conn.rollback(); raise` (the rollback itself may raise)
rollback ==
    /\ InCall("rollback")
    /\ procs' = [procs EXCEPT ![1].pc = "cursor_close"]
    /\ UNCHANGED <<db, last, blocked>>

\* `finally: cursor.close()`, then out of the `with get_db_connection()`
cursor_close ==
    /\ InCall("cursor_close")
    /\ procs' = [procs EXCEPT ![1].cursors = @ - 1,
                              ![1].pc = get_db_connection_finally(procs[1].exc)]
    /\ UNCHANGED <<db, last, blocked>>

\* `finally: conn.close()`; the call then raises, returns, or enters its next
\* with block.
conn_close ==
    /\ InCall("conn_close")
    /\ procs' = [procs EXCEPT
                   ![1].conns = @ - 1,
                   ![1].pc = IF procs[1].exc THEN "raised"
                             ELSE IF procs[1].exit = "return"
                                       \/ procs[1].block = Len(procs[1].commits)
                                  THEN "returned" ELSE "connect",
                   ![1].block = IF ~procs[1].exc /\ procs[1].exit = "end"
                                      /\ procs[1].block < Len(procs[1].commits)
                                THEN @ + 1 ELSE @,
                   ![1].acquired = IF ~procs[1].exc /\ procs[1].exit = "end"
                                         /\ procs[1].block < Len(procs[1].commits)
                                   THEN 0 ELSE @]
    /\ UNCHANGED <<db, last, blocked>>

NextConn ==
    call \/ connect \/ cursor \/ body \/ commit \/ rollback \/ cursor_close \/ conn_close

SpecConn == Init /\ [][NextConn]_vars

\* C18: a repository call holds at most one connection, the one its current
\* with block acquired, and when it has returned or raised, whatever the exit
\* path, no connection and no cursor is open.
C18_ConnectionScoping ==
    procs # <<>> =>
        /\ procs[1].conns \in {0, 1} /\ procs[1].cursors \in {0, 1}
        /\ procs[1].acquired <= 1
        /\ procs[1].conns <= procs[1].acquired
        /\ procs[1].pc \in {"body", "commit", "rollback", "cursor_close"}
              => procs[1].acquired = 1 /\ procs[1].conns = 1
        /\ procs[1].pc \in {"returned", "raised"}
              => procs[1].conns = 0 /\ procs[1].cursors = 0

\* delete_abonnement was refused by its guard (the early return) and has
\* returned after acquiring its connection.
C18_Witness ==
    /\ procs # <<>>
    /\ procs[1].op = "delete_abonnement"
    /\ procs[1].pc = "returned"
    /\ procs[1].exit = "return"
    /\ procs[1].acquired = 1
    /\ procs[1].conns = 0

====
